---------------------------- MODULE Spec2Model ----------------------------
(***************************************************************************)
(* T1D-Carb: the insulin dosing calculation and the blood-glucose          *)
(* forecasting engine of the AnalysisResult component, together with the   *)
(* profile forms that feed them.                                           *)
(*                                                                         *)
(* JavaScript numbers are modelled as records                              *)
(*     [k |-> "fin", v |-> n]   the finite number n / FX                   *)
(*     [k |-> "nan"], [k |-> "pinf"], [k |-> "ninf"] (v = 0)               *)
(* Finite values are held in fixed point with FX units per 1.0; every      *)
(* multiplication and division rounds to the nearest unit, where a double  *)
(* rounds to the nearest representable value.  NaN and the infinities      *)
(* follow IEEE 754 (the zero is unsigned).                                 *)
(***************************************************************************)
EXTENDS Integers, Sequences, FiniteSets, TLC

\* ------------------------------------------------------------------------
\* JavaScript numbers
\* ------------------------------------------------------------------------

K3 == 1000
FX == K3 * K3

Fin(n) == [k |-> "fin", v |-> n]
NaN    == [k |-> "nan", v |-> 0]
PInf   == [k |-> "pinf", v |-> 0]
NInf   == [k |-> "ninf", v |-> 0]

\* the integer n as a number
Num(n) == Fin(n * FX)
\* the decimal literal u.dddddd (micro = the six decimals)
Dec(u, micro) == Fin(u * FX + micro)

IsNaN(a)    == a.k = "nan"
IsFinite(a) == a.k = "fin"
IsInf(a)    == a.k \in {"pinf", "ninf"}

Abs(n) == IF n < 0 THEN -n ELSE n
Sgn(n) == IF n < 0 THEN -1 ELSE 1

\* sign of a non-NaN number, the unsigned zero counting as positive
SignOf(a) == IF a.k = "ninf" \/ (a.k = "fin" /\ a.v < 0) THEN -1 ELSE 1
InfOf(s)  == IF s < 0 THEN NInf ELSE PInf
IsZero(a) == a.k = "fin" /\ a.v = 0

\* a * b / FX for a, b >= 0, rounded to nearest, computed in three-digit
\* limbs so that no intermediate product leaves the integer range
MulAbs(a, b) ==
  LET ah == a \div K3   al == a % K3
      bh == b \div K3   bl == b % K3
      t1 == ah * bl
      t2 == al * bh
      whole == ah * bh + (t1 \div K3) + (t2 \div K3)
      frac  == (t1 % K3) * K3 + (t2 % K3) * K3 + al * bl
  IN  whole + ((frac + (FX \div 2)) \div FX)

RECURSIVE DivDigits(_, _, _, _)
DivDigits(q, r, b, n) ==
  IF n = 0 THEN (IF 2 * r >= b THEN q + 1 ELSE q)
  ELSE DivDigits(q * 10 + ((r * 10) \div b), (r * 10) % b, b, n - 1)

\* a * FX / b for a >= 0, b > 0, rounded to nearest, by long division (a
\* divisor of ten digits is first reduced to nine)
DivAbs(a, b) ==
  LET big == b > 214748364
      aa  == IF big THEN a \div 10 ELSE a
      bb  == IF big THEN b \div 10 ELSE b
  IN  DivDigits(aa \div bb, aa % bb, bb, 6)

FNeg(a) ==
  CASE a.k = "fin"  -> Fin(-a.v)
    [] a.k = "pinf" -> NInf
    [] a.k = "ninf" -> PInf
    [] OTHER        -> NaN

FAdd(a, b) ==
  IF a.k = "fin" /\ b.k = "fin" THEN Fin(a.v + b.v)
  ELSE IF IsNaN(a) \/ IsNaN(b) THEN NaN
  ELSE IF IsInf(a) /\ IsInf(b) THEN (IF a.k = b.k THEN a ELSE NaN)
  ELSE IF IsInf(a) THEN a
  ELSE b

FSub(a, b) == FAdd(a, FNeg(b))

FMul(a, b) ==
  IF a.k = "fin" /\ b.k = "fin"
  THEN Fin(Sgn(a.v) * Sgn(b.v) * MulAbs(Abs(a.v), Abs(b.v)))
  ELSE IF IsNaN(a) \/ IsNaN(b) THEN NaN
  ELSE IF IsZero(a) \/ IsZero(b) THEN NaN
  ELSE InfOf(SignOf(a) * SignOf(b))

FDiv(a, b) ==
  IF a.k = "fin" /\ b.k = "fin"
  THEN (IF b.v = 0 THEN (IF a.v = 0 THEN NaN ELSE InfOf(SignOf(a)))
        ELSE Fin(Sgn(a.v) * Sgn(b.v) * DivAbs(Abs(a.v), Abs(b.v))))
  ELSE IF IsNaN(a) \/ IsNaN(b) THEN NaN
  ELSE IF IsInf(a) THEN (IF IsInf(b) THEN NaN ELSE InfOf(SignOf(a) * SignOf(b)))
  ELSE Fin(0)

\* comparisons: every comparison with NaN is false
Rank(a) == CASE a.k = "ninf" -> 0 [] a.k = "fin" -> 1 [] OTHER -> 2
FLt(a, b) ==
  IF a.k = "fin" /\ b.k = "fin" THEN a.v < b.v
  ELSE ~IsNaN(a) /\ ~IsNaN(b) /\ Rank(a) < Rank(b)
FGt(a, b) == FLt(b, a)
FEq(a, b) == ~IsNaN(a) /\ ~IsNaN(b) /\ a = b
FLe(a, b) == FLt(a, b) \/ FEq(a, b)
FGe(a, b) == FLe(b, a)

\* Math.max(a, b)
MathMax(a, b) ==
  IF IsNaN(a) \/ IsNaN(b) THEN NaN ELSE IF FLt(a, b) THEN b ELSE a

\* Math.min: NaN if either argument is NaN
MathMin(a, b) ==
  IF IsNaN(a) \/ IsNaN(b) THEN NaN
  ELSE IF FLt(b, a) THEN b ELSE a

\* Math.round(a): the nearest integer, halves towards +Infinity
MathRound(a) ==
  IF IsFinite(a) THEN Fin(((a.v + (FX \div 2)) \div FX) * FX) ELSE a

\* a || d : 0 and NaN are falsy
OrElse(a, d) == IF IsNaN(a) \/ IsZero(a) THEN d ELSE a

\* a * b / FX for signed fixed-point integers
MulFx(a, b) == Sgn(a) * Sgn(b) * MulAbs(Abs(a), Abs(b))
\* n / k for an integer k > 0, rounded to nearest
RDiv(n, k) == (2 * n + k) \div (2 * k)

\* the integer quotient n / d (d > 0) as a number
Ratio(n, d) == Fin(Sgn(n) * DivDigits(Abs(n) \div d, Abs(n) % d, d, 6))

\* Math.exp on a finite argument: e^v = (e^(v/16))^16, the inner exponential
\* by its Taylor series (ten terms, Horner form)
RECURSIVE ExpSeries(_, _, _)
ExpSeries(y, k, s) ==
  IF k = 0 THEN s ELSE ExpSeries(y, k - 1, FX + RDiv(MulFx(y, s), k))

RECURSIVE SquareN(_, _)
SquareN(e, n) == IF n = 0 THEN e ELSE SquareN(MulFx(e, e), n - 1)

ExpFx(v) ==
  IF v < -20 * FX THEN 0
  ELSE LET y   == v \div 16
           rem == v - 16 * y
       IN  MulFx(SquareN(ExpSeries(y, 10, FX), 4), FX + rem)

MathExp(a) ==
  CASE a.k = "fin"  -> Fin(ExpFx(a.v))
    [] a.k = "pinf" -> PInf
    [] a.k = "ninf" -> Fin(0)
    [] OTHER        -> NaN

\* ------------------------------------------------------------------------
\* JavaScript strings: sequences of one-character strings
\* ------------------------------------------------------------------------

Digits == <<"0", "1", "2", "3", "4", "5", "6", "7", "8", "9">>
IsDigit(c) == \E d \in 1..10 : Digits[d] = c
DigitVal(c) == (CHOOSE d \in 1..10 : Digits[d] = c) - 1
InfinityWord == <<"I", "n", "f", "i", "n", "i", "t", "y">>

\* a JavaScript value that is a string (the other values here are numbers)
Str(s) == [str |-> s]
IsString(x) == "str" \in DOMAIN x

RECURSIVE SkipSpaces(_, _)
SkipSpaces(s, i) ==
  IF i <= Len(s) /\ s[i] = " " THEN SkipSpaces(s, i + 1) ELSE i

RECURSIVE SkipSpacesBack(_, _)
SkipSpacesBack(s, j) ==
  IF j >= 1 /\ s[j] = " " THEN SkipSpacesBack(s, j - 1) ELSE j

\* String.prototype.trim
Trim(s) ==
  LET i == SkipSpaces(s, 1)
      j == SkipSpacesBack(s, Len(s))
  IN  IF i > j THEN <<>> ELSE SubSeq(s, i, j)

\* the index after the run of digits of s that starts at i
RECURSIVE DigitsEnd(_, _)
DigitsEnd(s, i) ==
  IF i <= Len(s) /\ IsDigit(s[i]) THEN DigitsEnd(s, i + 1) ELSE i

\* the value of the digits s[i..j-1] read as an integer
RECURSIVE IntOf(_, _, _, _)
IntOf(s, i, j, acc) ==
  IF i >= j THEN acc ELSE IntOf(s, i + 1, j, acc * 10 + DigitVal(s[i]))

\* the value, in fixed-point units, of the digits s[i..j-1] read as a
\* fraction: the digit at place p weighs FX / 10^p (places past the sixth
\* are below the resolution and dropped)
RECURSIVE FracOf(_, _, _, _)
FracOf(s, i, j, w) ==
  IF i >= j \/ w = 0 THEN 0
  ELSE DigitVal(s[i]) * w + FracOf(s, i + 1, j, w \div 10)

\* parseFloat / Number.parseFloat over the alphabet of digits, sign, point,
\* space and letters (no exponent part): the longest numeric prefix, NaN when
\* there is none
parseFloat(s) ==
  LET i0   == SkipSpaces(s, 1)
      neg  == i0 <= Len(s) /\ s[i0] = "-"
      i1   == IF i0 <= Len(s) /\ s[i0] \in {"-", "+"} THEN i0 + 1 ELSE i0
      i2   == DigitsEnd(s, i1)
      dot  == i2 <= Len(s) /\ s[i2] = "."
      i3   == IF dot THEN DigitsEnd(s, i2 + 1) ELSE i2
      nInt == i2 - i1
      nFrc == IF dot THEN i3 - (i2 + 1) ELSE 0
      mag  == IntOf(s, i1, i2, 0) * FX
              + (IF dot THEN FracOf(s, i2 + 1, i3, FX \div 10) ELSE 0)
  IN  IF i1 + 7 <= Len(s) /\ SubSeq(s, i1, i1 + 7) = InfinityWord
      THEN (IF neg THEN NInf ELSE PInf)
      ELSE IF nInt + nFrc = 0 THEN NaN
      ELSE Fin(IF neg THEN -mag ELSE mag)

\* ------------------------------------------------------------------------
\* AnalysisResult: kernels and the BG simulator
\* ------------------------------------------------------------------------

deltaT    == 1
horizon   == 180
tauC      == 60
tau1      == 20
tau2      == 160
bgTarget  == 100
bgFloor   == 50
trendSteps == 10
\* kBaseline = 0.001
kBaseline == Dec(0, 1000)

\* the 500 rule paired with the 1800 rule
calculateICRandISF1800(tdd) ==
  [ICR |-> FDiv(Num(500), tdd), ISF |-> FDiv(Num(1800), tdd)]

\* calculateICRandISF(tdd): the 500 / 1500 rules
calculateICRandISF(tdd) ==
  [ICR |-> FDiv(Num(500), tdd), ISF |-> FDiv(Num(1500), tdd)]

\* gammaKernel(t, tauC); t and tauC are whole minutes
gammaKernel(t, tc) ==
  IF t <= 0 THEN Num(0)
  ELSE FMul(Ratio(t, tc * tc), MathExp(FNeg(Ratio(t, tc))))

\* insulinKernel(t, tau1, tau2)
insulinKernel(t, t1, t2) ==
  IF t <= 0 THEN Num(0)
  ELSE LET exp1 == MathExp(FNeg(Ratio(t, t1)))
           exp2 == MathExp(FNeg(Ratio(t, t2)))
       IN  FSub(exp2, exp1)

\* normalizeInsulinKernel(t, tau1, tau2)
normalizeInsulinKernel(t, t1, t2) ==
  LET raw        == insulinKernel(t, t1, t2)
      normFactor == Num(t2 - t1)
  IN  FDiv(raw, normFactor)

\* the initial slope selected by the trend switch
initialSlope(trend) ==
  CASE trend = "rising"  -> Num(2)
    [] trend = "falling" -> Num(-2)
    [] OTHER             -> Num(0)

\* deltaFromCarbs and deltaFromInsulin of pass i; carbProfile[i - 1] of the
\* code is carbP[i]
deltaFromCarbs(i, carbP, icr, isf) ==
  LET carbsThisMinute == OrElse(carbP[i], Num(0))
  IN  FMul(FDiv(isf, icr), carbsThisMinute)

deltaFromInsulin(i, insP, isf) ==
  LET insulinThisMinute == OrElse(insP[i], Num(0))
  IN  FMul(isf, insulinThisMinute)

\* the sum the loop computes for bgArray[i] before the floor is applied:
\* bgArray[i - 1] + deltaFromCarbs - deltaFromInsulin + drift + trendEffect
StepSum(prev, i, carbP, insP, icr, isf, slope) ==
  LET drift == FMul(FMul(FNeg(kBaseline), FSub(prev, Num(bgTarget))), Num(deltaT))
      trendEffect == IF i <= trendSteps THEN FMul(slope, Num(deltaT)) ELSE Num(0)
  IN  FAdd(FAdd(FSub(FAdd(prev, deltaFromCarbs(i, carbP, icr, isf)),
                     deltaFromInsulin(i, insP, isf)),
                drift),
           trendEffect)

\* the integration step with the floor left out
StepBGNoFloor(prev, i, carbP, insP, icr, isf, slope) ==
  StepSum(prev, i, carbP, insP, icr, isf, slope)

\* the integration step with a ceiling of 300 next to the floor
StepBGCapped(prev, i, carbP, insP, icr, isf, slope) ==
  MathMin(Num(300), MathMax(Num(bgFloor), StepSum(prev, i, carbP, insP, icr, isf, slope)))

\* the integration step with the trend slope applied at every step
StepBGTrendThroughout(prev, i, carbP, insP, icr, isf, slope) ==
  MathMax(Num(bgFloor),
          FAdd(StepSum(prev, i, carbP, insP, icr, isf, Num(0)),
               FMul(slope, Num(deltaT))))

\* one pass of the integration loop: bgArray[i] from bgArray[i - 1]
\* (sequences are 1-based: bgArray[i] of the code is arr[i + 1])
StepBG(prev, i, carbP, insP, icr, isf, slope) ==
  MathMax(Num(bgFloor), StepSum(prev, i, carbP, insP, icr, isf, slope))

\* the integration loop for i = lo..hi, run on the array filled up to
\* bgArray[lo - 1].  The range is halved, and the first half is bound through
\* a singleton set, so that TLC computes each element once and stays shallow.
RECURSIVE Integrate(_, _, _, _, _, _, _, _)
Integrate(arr, lo, hi, carbP, insP, icr, isf, slope) ==
  IF lo > hi THEN arr
  ELSE IF lo = hi
       THEN Append(arr, StepBG(arr[lo], lo, carbP, insP, icr, isf, slope))
  ELSE LET mid == (lo + hi) \div 2
       IN  CHOOSE res \in
             { Integrate(left, mid + 1, hi, carbP, insP, icr, isf, slope) :
                 left \in {Integrate(arr, lo, mid, carbP, insP, icr, isf, slope)} } :
             TRUE

Null == [null |-> TRUE]
IsNull(x) == "null" \in DOMAIN x

\* the returned object with the hourly values read one minute early
BGPredictionShifted(bgNum, bgArray, r) ==
  [current     |-> bgNum,
   oneHour     |-> MathRound(bgArray[60]),
   twoHours    |-> MathRound(bgArray[120]),
   threeHours  |-> MathRound(bgArray[180]),
   fullProfile |-> bgArray,
   ICR |-> FDiv(MathRound(FMul(r.ICR, Num(10))), Num(10)),
   ISF |-> FDiv(MathRound(FMul(r.ISF, Num(10))), Num(10))]

\* the object calculateBGPredictions returns for the filled bgArray
BGPrediction(bgNum, bgArray, r) ==
  [current     |-> bgNum,
   oneHour     |-> MathRound(bgArray[61]),
   twoHours    |-> MathRound(bgArray[121]),
   threeHours  |-> MathRound(bgArray[181]),
   fullProfile |-> bgArray,
   ICR |-> FDiv(MathRound(FMul(r.ICR, Num(10))), Num(10)),
   ISF |-> FDiv(MathRound(FMul(r.ISF, Num(10))), Num(10))]

\* The kernels depend on the minute alone, so their values over the horizon
\* are tabulated once: gammaKernel(i * deltaT, tauC) and
\* normalizeInsulinKernel(i * deltaT, tau1, tau2) for i = 0..horizon-1, held at
\* index i + 1.
carbKernelAt    == [j \in 1..horizon |-> gammaKernel((j - 1) * deltaT, tauC)]
insulinKernelAt == [j \in 1..horizon |->
                      normalizeInsulinKernel((j - 1) * deltaT, tau1, tau2)]

\* carbProfile and insulinProfile of a call; carbProfile[i] of the code is
\* carbProfile(carbs)[i + 1]
carbProfile(carbs) ==
  [j \in 1..horizon |-> FMul(FMul(carbs, carbKernelAt[j]), Num(deltaT))]

insulinProfile(insulinDoseValue) ==
  [j \in 1..horizon |->
     FMul(FMul(insulinDoseValue, insulinKernelAt[j]), Num(deltaT))]

\* calculateBGPredictions with the floor applied to bgArray[0] as well
calculateBGPredictionsFlooredStart(currentBGValue, carbs, insulinDoseValue, trend, tdd) ==
  LET bgNum == IF IsString(currentBGValue) THEN parseFloat(currentBGValue.str)
               ELSE currentBGValue
      r     == calculateICRandISF(tdd)
      carbP == carbProfile(carbs)
      insP  == insulinProfile(insulinDoseValue)
  IN  IF IsNaN(bgNum) THEN Null
      ELSE CHOOSE res \in
             { BGPrediction(b, bgArray, r) :
                 b \in {bgNum},
                 bgArray \in {Integrate(<<MathMax(Num(bgFloor), bgNum)>>, 1, horizon,
                                        carbP, insP, r.ICR, r.ISF,
                                        initialSlope(trend))} } :
             TRUE

\* calculateBGPredictions(currentBGValue, carbs, insulinDoseValue, trend, tdd)
calculateBGPredictions(currentBGValue, carbs, insulinDoseValue, trend, tdd) ==
  LET bgNum == IF IsString(currentBGValue) THEN parseFloat(currentBGValue.str)
               ELSE currentBGValue
      r     == calculateICRandISF(tdd)
      carbP == carbProfile(carbs)
      insP  == insulinProfile(insulinDoseValue)
  IN  IF IsNaN(bgNum) THEN Null
      ELSE CHOOSE res \in
             { BGPrediction(b, bgArray, r) :
                 b \in {bgNum},
                 bgArray \in {Integrate(<<bgNum>>, 1, horizon, carbP, insP,
                                        r.ICR, r.ISF, initialSlope(trend))} } :
             TRUE

\* a display point whose critical flags replace the high and low flags
CGMPointExclusive(timeMinutes, predictedBG) ==
  [time           |-> timeMinutes,
   bg             |-> MathRound(predictedBG),
   isHigh         |-> FGt(predictedBG, Num(180)) /\ FLe(predictedBG, Num(250)),
   isLow          |-> FLt(predictedBG, Num(70)) /\ FGe(predictedBG, Num(55)),
   isNormal       |-> FGe(predictedBG, Num(70)) /\ FLe(predictedBG, Num(180)),
   isTarget       |-> FGe(predictedBG, Num(70)) /\ FLe(predictedBG, Num(180)),
   isCriticalHigh |-> FGt(predictedBG, Num(250)),
   isCriticalLow  |-> FLt(predictedBG, Num(55))]

\* a display point with the target band open at 180
CGMPointOpenTarget(timeMinutes, predictedBG) ==
  [time           |-> timeMinutes,
   bg             |-> MathRound(predictedBG),
   isHigh         |-> FGe(predictedBG, Num(180)),
   isLow          |-> FLt(predictedBG, Num(70)),
   isNormal       |-> FGe(predictedBG, Num(70)) /\ FLt(predictedBG, Num(180)),
   isTarget       |-> FGe(predictedBG, Num(70)) /\ FLt(predictedBG, Num(180)),
   isCriticalHigh |-> FGt(predictedBG, Num(250)),
   isCriticalLow  |-> FLt(predictedBG, Num(55))]

\* generateCGMData(currentBGValue, carbs, insulinDoseValue, trend, tdd): the
\* thirteen display samples, <<>> when there is no prediction
CGMPoint(timeMinutes, predictedBG) ==
  [time           |-> timeMinutes,
   bg             |-> MathRound(predictedBG),
   isHigh         |-> FGt(predictedBG, Num(180)),
   isLow          |-> FLt(predictedBG, Num(70)),
   isNormal       |-> FGe(predictedBG, Num(70)) /\ FLe(predictedBG, Num(180)),
   isTarget       |-> FGe(predictedBG, Num(70)) /\ FLe(predictedBG, Num(180)),
   isCriticalHigh |-> FGt(predictedBG, Num(250)),
   isCriticalLow  |-> FLt(predictedBG, Num(55))]

Min2(a, b) == IF a < b THEN a ELSE b

\* the display points taken at strides of 14 minutes
CGMPointsStride14(fullProfile) ==
  [i \in 1..13 |->
     CGMPoint((i - 1) * 14,
              fullProfile[Min2((i - 1) * 14, Len(fullProfile) - 1) + 1])]

CGMPoints(fullProfile) ==
  [i \in 1..13 |->
     CGMPoint((i - 1) * 15,
              fullProfile[Min2((i - 1) * 15, Len(fullProfile) - 1) + 1])]

generateCGMData(currentBGValue, carbs, insulinDoseValue, trend, tdd) ==
  LET bgNum == IF IsString(currentBGValue) THEN parseFloat(currentBGValue.str)
               ELSE currentBGValue
  IN  IF IsNaN(bgNum) THEN <<>>
      ELSE CHOOSE res \in
             { IF IsNull(predictions) THEN <<>>
               ELSE CGMPoints(predictions.fullProfile) :
                 predictions \in
                   {calculateBGPredictions(bgNum, carbs, insulinDoseValue, trend, tdd)} } :
             TRUE

\* the colour class of a summary card (1h, 2h, 3h) for the value it shows
cardColour(value) ==
  IF FGt(value, Num(180)) THEN "text-red-600"
  ELSE IF FLt(value, Num(70)) THEN "text-yellow-600"
  ELSE "text-green-600"

\* Math.max(...values) and Math.min(...values) of a non-empty list
RECURSIVE MaxOf(_, _)
MaxOf(values, n) ==
  IF n = 1 THEN values[1] ELSE MathMax(MaxOf(values, n - 1), values[n])

RECURSIVE MinOf(_, _)
MinOf(values, n) ==
  IF n = 1 THEN values[1] ELSE MathMin(MinOf(values, n - 1), values[n])

\* maxBG and minBG of the render: over the bg of the display points
maxBG(data) ==
  IF Len(data) > 0 THEN MaxOf([i \in 1..Len(data) |-> data[i].bg], Len(data))
  ELSE Num(200)

minBG(data) ==
  IF Len(data) > 0 THEN MinOf([i \in 1..Len(data) |-> data[i].bg], Len(data))
  ELSE Num(80)

\* ------------------------------------------------------------------------
\* AnalysisResult: unit conversion and the dose calculation
\* ------------------------------------------------------------------------

\* 18.0182
MgdLPerMmolL == Dec(18, 18200)
mgdLToMmolL(mgdL)  == FDiv(mgdL, MgdLPerMmolL)
\* the conversion back with the factor cut to 18
mmolLToMgdLBy18(mmolL) == FMul(mmolL, Num(18))
mmolLToMgdL(mmolL) == FMul(mmolL, MgdLPerMmolL)

convertBG(value, fromUnit, toUnit) ==
  IF fromUnit = toUnit THEN value
  ELSE IF fromUnit = "mg/dL" /\ toUnit = "mmol/L" THEN mgdLToMmolL(value)
  ELSE IF fromUnit = "mmol/L" /\ toUnit = "mg/dL" THEN mmolLToMgdL(value)
  ELSE value

\* the correction target, 7 mmol/L, and the low-BG threshold, 80
correctionTarget == 7
lowBGThreshold   == 80

\* the correction dose with the mg/dL value taken for mmol/L
CorrectionDoseNoConversion(currentBGNum, unit, correctionFactor) ==
  IF ~IsNaN(currentBGNum) /\ FGt(currentBGNum, Num(correctionTarget))
  THEN FDiv(FSub(currentBGNum, Num(correctionTarget)), correctionFactor)
  ELSE Num(0)

\* the correction dose of the render (lines 152-163)
CorrectionDose(currentBGNum, unit, correctionFactor) ==
  LET bgInMmolL == IF unit = "mg/dL" THEN mgdLToMmolL(currentBGNum)
                   ELSE currentBGNum
  IN  IF ~IsNaN(currentBGNum) /\ FGt(bgInMmolL, Num(correctionTarget))
      THEN FDiv(FSub(bgInMmolL, Num(correctionTarget)), correctionFactor)
      ELSE Num(0)

\* whether the render takes the low-BG branch (line 169)
LowBGBranch(currentBGNum) ==
  ~IsNaN(currentBGNum) /\ FLt(currentBGNum, Num(lowBGThreshold))

\* the total dose with the low-BG reduction not floored at 0
TotalInsulinDoseNoFloor(baseInsulinDose, correctionDose, currentBGNum) ==
  IF IsNaN(currentBGNum) THEN baseInsulinDose
  ELSE IF ~IsNaN(currentBGNum) /\ FLt(currentBGNum, Num(lowBGThreshold))
       THEN FSub(FAdd(baseInsulinDose, correctionDose), Num(1))
  ELSE FAdd(baseInsulinDose, correctionDose)

\* the total dose of the render (lines 153-172)
TotalInsulinDose(baseInsulinDose, correctionDose, currentBGNum) ==
  IF IsNaN(currentBGNum) THEN baseInsulinDose
  ELSE IF LowBGBranch(currentBGNum)
       THEN MathMax(Num(0), FSub(FAdd(baseInsulinDose, correctionDose), Num(1)))
  ELSE FAdd(baseInsulinDose, correctionDose)

\* One render of AnalysisResult: the dose and the arguments with which it
\* calls calculateBGPredictions and generateCGMData.  unit is the component's
\* own bgUnit state.
RenderAnalysisResult(analysis, carbRatio, currentBG, bgTrend, totalDailyDose, unit, correctionFactor) ==
  LET carbs           == OrElse(analysis.carbs, Num(0))
      ratio           == OrElse(carbRatio, Num(1))
      baseInsulinDose == FDiv(carbs, ratio)
      currentBGNum    == OrElse(parseFloat(currentBG), Num(0))
      correctionDose  == CorrectionDose(currentBGNum, unit, correctionFactor)
      totalInsulinDose ==
        TotalInsulinDose(baseInsulinDose, correctionDose, currentBGNum)
  IN  [carbs            |-> carbs,
       ratio            |-> ratio,
       correctionFactor |-> correctionFactor,
       unit             |-> unit,
       currentBGNum     |-> currentBGNum,
       baseInsulinDose  |-> baseInsulinDose,
       correctionDose   |-> correctionDose,
       lowBG            |-> LowBGBranch(currentBGNum),
       totalInsulinDose |-> totalInsulinDose,
       simArgs |-> [currentBGValue   |-> Str(currentBG),
                    carbs            |-> carbs,
                    insulinDoseValue |-> totalInsulinDose,
                    trend            |-> bgTrend,
                    tdd              |-> parseFloat(totalDailyDose)]]

\* ------------------------------------------------------------------------
\* State
\* ------------------------------------------------------------------------

VARIABLES
  profileData,       \* Home: the saved profile, Null before the setup
  correctionFactor,  \* the correctionFactor prop FoodAnalyzer hands down
  showSettings,      \* FoodAnalyzer: the settings dialog is open
  analysis,          \* FoodAnalyzer: the analysis shown, Null when none
  bgUnit,            \* AnalysisResult: its own bgUnit state ("" = unmounted)
  view,              \* AnalysisResult: what the last render computed
  simArgs,           \* a call of the simulator: its arguments,
  predictions,       \* what calculateBGPredictions returned for them
  cgmData,           \* and what generateCGMData returned for them
  simPhase,          \* "ready" before the call, "done" after it
  callLog,           \* successive calls of calculateBGPredictions: the
                     \* arguments and the result of each, in order
  loopArgs,          \* calculateBGPredictions run pass by pass: its arguments,
  bgArray,           \* its bgArray as filled so far,
  loopPhase,         \* and where it is: "idle", "entered", "looping", "returned"
  calc,              \* one application of a calculation rule: the rule, its
                     \* argument and, once applied, its result
  isAnalyzing,       \* FoodAnalyzer: a request is being waited for
  entryMode,         \* FoodAnalyzer: "photo" or "manual"
  showConfirmation,  \* FoodAnalyzer: the manual-entry confirmation is shown
  showPhotoConfirmation, \* FoodAnalyzer: the photo confirmation is shown
  foodSuggestions,   \* FoodAnalyzer: the suggestions to confirm
  pendingFoodName,   \* FoodAnalyzer: the food name submitted
  pendingNotes,      \* FoodAnalyzer: the notes submitted
  photoDetectedFoods, \* FoodAnalyzer: the foods detected in the photo
  pendingImageUrl,   \* FoodAnalyzer: the photo they were detected in
  readers,           \* FoodUpload: FileReaders that have not finished
  requests,          \* fetches in flight, each with what its handler holds
  delivered,         \* the response delivered last: request kind and outcome
  foods,             \* PhotoFoodConfirmation: its foods state
  carbRequests       \* PhotoFoodConfirmation: /api/calculate-carbs fetches in
                     \* flight, each with the newFoods its handler holds

appVars == <<profileData, correctionFactor, showSettings, analysis, bgUnit, view>>
simVars == <<simArgs, predictions, cgmData, simPhase, callLog>>
benchVars == <<loopArgs, bgArray, loopPhase, calc>>
faVars  == <<isAnalyzing, entryMode, showConfirmation, showPhotoConfirmation,
             foodSuggestions, pendingFoodName, pendingNotes, photoDetectedFoods,
             pendingImageUrl, readers, requests, delivered>>
pfVars  == <<foods, carbRequests>>
uiVars  == <<faVars, pfVars>>
vars    == <<profileData, correctionFactor, showSettings, analysis, bgUnit, view,
             simArgs, predictions, cgmData, simPhase, callLog,
             loopArgs, bgArray, loopPhase, calc,
             isAnalyzing, entryMode, showConfirmation, showPhotoConfirmation,
             foodSuggestions, pendingFoodName, pendingNotes, photoDetectedFoods,
             pendingImageUrl, readers, requests, delivered,
             foods, carbRequests>>

\* FoodAnalyzer as useState initialises it, with nothing in flight
AnalyzerInitial ==
  /\ isAnalyzing = FALSE
  /\ entryMode = "photo"
  /\ showConfirmation = FALSE
  /\ showPhotoConfirmation = FALSE
  /\ foodSuggestions = <<>>
  /\ pendingFoodName = ""
  /\ pendingNotes = ""
  /\ photoDetectedFoods = <<>>
  /\ pendingImageUrl = ""
  /\ readers = 0
  /\ requests = <<>>
  /\ delivered = Null

\* FoodAnalyzer as mounted, PhotoFoodConfirmation not mounted
UiIdle ==
  /\ AnalyzerInitial
  /\ foods = <<>>
  /\ carbRequests = <<>>

\* ------------------------------------------------------------------------
\* Inputs
\* ------------------------------------------------------------------------

\* how many of the candidate texts below a user may type into each field
NumRatioTexts == 3
NumBGTexts    == 5
NumTDDTexts   == 3
NumCarbValues == 2

Prefix(seq, n) == {seq[i] : i \in 1..Min2(n, Len(seq))}

RatioTexts ==
  Prefix(<< <<"1", "0">>, <<"0">>, <<"1", "2", ".", "5">>, <<>>, <<"-", "5">> >>,
         NumRatioTexts)
BGTexts ==
  Prefix(<< <<"1", "5", "0">>, <<"7", "9">>, <<"7">>, <<"5", ".", "5">>,
            <<"8", "0">>, <<"4", "0">>, <<>>, <<"7", ".", "1">>, <<"1", "2", "6">> >>,
         NumBGTexts)
TDDTexts ==
  Prefix(<< <<"4", "0">>, <<"0">>, <<>>, <<"-", "4", "0">>, <<"5">> >>, NumTDDTexts)
TrendTexts == {"", "stable"}
Units == {"mg/dL", "mmol/L"}
\* the carbs an analysis may carry
CarbValues == Prefix(<<Num(50), Num(0), Num(30), Num(-10)>>, NumCarbValues)
\* the correction factors the profile may carry
CorrectionFactors == {Num(2), Dec(1, 500000)}

\* ------------------------------------------------------------------------
\* Home and ProfileSetup
\* ------------------------------------------------------------------------

\* the browser's constraint validation of <input type="number" required
\* min max step>: a text that is a number within [lo, hi] on the step grid
InputValid(text, lo, hi, step) ==
  LET x == parseFloat(text)
  IN  /\ text # <<>>
      /\ IsFinite(x)
      /\ x.v >= lo.v /\ x.v <= hi.v
      /\ (x.v - lo.v) % step.v = 0

\* the largest value an <input> without max accepts here
NoMax == Num(2000)

\* the form of ProfileSetup passes the browser's validation
ProfileFormValid(ratio, currentBG, totalDailyDose, unit) ==
  /\ InputValid(ratio, Dec(0, 100000), NoMax, Dec(0, 100000))
  /\ IF unit = "mg/dL"
     THEN InputValid(currentBG, Num(50), Num(500), Num(1))
     ELSE InputValid(currentBG, Dec(2, 800000), Dec(27, 800000), Dec(0, 100000))
  /\ InputValid(totalDailyDose, Num(10), Num(200), Num(1))

\* the check both forms make before they save (handleSubmit, handleSave)
FieldsAccepted(ratio, bg, trend, tdd) ==
  /\ FGt(parseFloat(ratio), Num(0))
  /\ Trim(bg) # <<>>
  /\ trend # ""
  /\ Trim(tdd) # <<>>

ProfileRecord(ratio, bg, trend, tdd, unit) ==
  [ratio          |-> parseFloat(ratio),
   currentBG      |-> Trim(bg),
   bgTrend        |-> trend,
   totalDailyDose |-> Trim(tdd),
   bgUnit         |-> unit]

\* what AnalysisResult renders for the given FoodAnalyzer state
ViewOf(p, a, u, cf) ==
  IF IsNull(p) \/ IsNull(a) THEN Null
  ELSE RenderAnalysisResult(a, p.ratio, p.currentBG, p.bgTrend, p.totalDailyDose,
                            u, cf)

\* ProfileSetup.handleSubmit -> Home.handleProfileSave
ProfileSetupSubmit(ratio, currentBG, bgTrend, totalDailyDose, unit) ==
  /\ IsNull(profileData)
  /\ ProfileFormValid(ratio, currentBG, totalDailyDose, unit)
  /\ FieldsAccepted(ratio, currentBG, bgTrend, totalDailyDose)
  /\ profileData' = ProfileRecord(ratio, currentBG, bgTrend, totalDailyDose, unit)
  /\ view' = ViewOf(profileData', analysis, bgUnit, correctionFactor)
  /\ UNCHANGED <<correctionFactor, showSettings, analysis, bgUnit>>
  /\ UNCHANGED <<simVars, benchVars, uiVars>>

\* ------------------------------------------------------------------------
\* FoodAnalyzer, SettingsDialog and AnalysisResult
\* ------------------------------------------------------------------------

\* the Settings button
OpenSettings ==
  /\ ~IsNull(profileData)
  /\ ~showSettings
  /\ showSettings' = TRUE
  /\ UNCHANGED <<profileData, correctionFactor, analysis, bgUnit, view>>
  /\ UNCHANGED <<simVars, benchVars, uiVars>>

\* the Cancel button: onOpenChange(false)
CancelSettings ==
  /\ showSettings
  /\ showSettings' = FALSE
  /\ UNCHANGED <<profileData, correctionFactor, analysis, bgUnit, view>>
  /\ UNCHANGED <<simVars, benchVars, uiVars>>

\* SettingsDialog.handleSave -> Home.handleProfileSave: a click handler, not
\* a form submission, so the inputs' min and max are not enforced
SettingsSave(ratio, bg, trend, tdd, unit) ==
  /\ showSettings
  /\ FieldsAccepted(ratio, bg, trend, tdd)
  /\ profileData' = ProfileRecord(ratio, bg, trend, tdd, unit)
  /\ showSettings' = FALSE
  /\ view' = ViewOf(profileData', analysis, bgUnit, correctionFactor)
  /\ UNCHANGED <<correctionFactor, analysis, bgUnit>>
  /\ UNCHANGED <<simVars, benchVars, uiVars>>

\* FoodAnalyzer.handleConfirmation: an analysis with the chosen carbs is
\* shown; AnalysisResult mounts and takes its bgUnit from the profile
HandleConfirmation(carbs) ==
  /\ ~IsNull(profileData)
  /\ IsNull(analysis)
  /\ analysis' = [carbs |-> carbs, needsClarification |-> FALSE]
  /\ bgUnit' = profileData.bgUnit
  /\ view' = ViewOf(profileData, analysis', bgUnit', correctionFactor)
  /\ UNCHANGED <<profileData, correctionFactor, showSettings>>
  /\ UNCHANGED <<simVars, benchVars, uiVars>>

\* AnalysisResult onReset: setAnalysis(null), the component unmounts
OnReset ==
  /\ ~IsNull(analysis)
  /\ analysis' = Null
  /\ bgUnit' = ""
  /\ view' = Null
  /\ UNCHANGED <<profileData, correctionFactor, showSettings>>
  /\ UNCHANGED <<simVars, benchVars, uiVars>>

\* the panel that holds the unit Select is rendered: currentBG, bgTrend and
\* totalDailyDose are non-empty, predictions is not null (currentBG parses,
\* line 222) and cgmData is not empty
PredictionPanelShown ==
  /\ profileData.currentBG # <<>>
  /\ profileData.bgTrend # ""
  /\ profileData.totalDailyDose # <<>>
  /\ ~IsNaN(parseFloat(profileData.currentBG))

\* the unit Select of AnalysisResult: setBgUnit(value)
SetBgUnit(value) ==
  /\ ~IsNull(analysis)
  /\ PredictionPanelShown
  /\ bgUnit # value
  /\ bgUnit' = value
  /\ view' = ViewOf(profileData, analysis, bgUnit', correctionFactor)
  /\ UNCHANGED <<profileData, correctionFactor, showSettings, analysis>>
  /\ UNCHANGED <<simVars, benchVars, uiVars>>

AppInit ==
  /\ profileData = Null
  /\ correctionFactor \in CorrectionFactors
  /\ showSettings = FALSE
  /\ analysis = Null
  /\ bgUnit = ""
  /\ view = Null
  /\ UiIdle

SimIdle ==
  /\ simArgs = Null
  /\ predictions = Null
  /\ cgmData = <<>>
  /\ simPhase = "ready"
  /\ callLog = <<>>

BenchIdle ==
  /\ loopArgs = Null
  /\ bgArray = <<>>
  /\ loopPhase = "idle"
  /\ calc = Null

Init == AppInit /\ SimIdle /\ BenchIdle

Next ==
  \/ \E ratio \in RatioTexts, bg \in BGTexts, trend \in TrendTexts,
        tdd \in TDDTexts, unit \in Units :
       \/ ProfileSetupSubmit(ratio, bg, trend, tdd, unit)
       \/ SettingsSave(ratio, bg, trend, tdd, unit)
  \/ OpenSettings
  \/ CancelSettings
  \/ \E carbs \in CarbValues : HandleConfirmation(carbs)
  \/ OnReset
  \/ \E value \in Units : SetBgUnit(value)

Spec == Init /\ [][Next]_vars

\* ------------------------------------------------------------------------
\* The simulator on its own: calculateBGPredictions and generateCGMData
\* applied to arguments drawn from bounded sets
\* ------------------------------------------------------------------------

\* how many of the candidate arguments below a call may draw from
NumSimBG      == 10
NumSimCarbs   == 2
NumSimInsulin == 3
NumSimTDD     == 2

SimBGValues ==
  Prefix(<<Num(150), Num(40), Num(100), Str(<<"1", "2", "0">>), PInf,
           Str(<<"a", "b", "c">>), NaN, Num(250), Num(180), Num(181),
           Dec(5, 500000), Str(<<"1", "2", "a", "b", "c">>), NInf, Num(60)>>,
         NumSimBG)
SimCarbValues   == Prefix(<<Num(0), Num(50), Num(100)>>, NumSimCarbs)
SimInsulinDoses == Prefix(<<Num(0), Num(50), Num(5), Dec(0, 500000)>>, NumSimInsulin)
SimTrends       == {"falling", "stable", "rising"}
SimTDDValues    == Prefix(<<Num(40), Num(0), Num(100)>>, NumSimTDD)

SimCalls ==
  [currentBGValue   : SimBGValues,
   carbs            : SimCarbValues,
   insulinDoseValue : SimInsulinDoses,
   trend            : SimTrends,
   tdd              : SimTDDValues]

SimInit ==
  /\ simArgs \in SimCalls
  /\ predictions = Null
  /\ cgmData = <<>>
  /\ simPhase = "ready"
  /\ callLog = <<>>
  /\ profileData = Null
  /\ correctionFactor = Num(2)
  /\ showSettings = FALSE
  /\ analysis = Null
  /\ bgUnit = ""
  /\ view = Null
  /\ UiIdle
  /\ BenchIdle

\* one render's two calls: calculateBGPredictions(...) and generateCGMData(...)
Invoke ==
  /\ simPhase = "ready"
  /\ predictions' = calculateBGPredictions(simArgs.currentBGValue, simArgs.carbs,
                       simArgs.insulinDoseValue, simArgs.trend, simArgs.tdd)
  /\ cgmData' = generateCGMData(simArgs.currentBGValue, simArgs.carbs,
                       simArgs.insulinDoseValue, simArgs.trend, simArgs.tdd)
  /\ simPhase' = "done"
  /\ UNCHANGED <<simArgs, callLog>>
  /\ UNCHANGED <<appVars, benchVars, uiVars>>

SimNext == Invoke

SpecSim == SimInit /\ [][SimNext]_vars

\* ------------------------------------------------------------------------
\* Successive calls of calculateBGPredictions, as successive renders make
\* them, each with arguments of its own
\* ------------------------------------------------------------------------

\* how many calls a run makes
MaxCalls == 3

LogCalls ==
  {[currentBGValue |-> c[1], carbs |-> Num(50), insulinDoseValue |-> c[2],
    trend |-> "rising", tdd |-> Num(40)] :
     c \in {<<Num(150), Num(5)>>, <<Num(150), Num(0)>>, <<Num(40), Num(5)>>,
            <<Str(<<"1", "2", "0">>), Num(5)>>, <<Str(<<"a", "b", "c">>), Num(0)>>}}

CallsInit ==
  /\ callLog = <<>>
  /\ simArgs = Null
  /\ predictions = Null
  /\ cgmData = <<>>
  /\ simPhase = "ready"
  /\ profileData = Null
  /\ correctionFactor = Num(2)
  /\ showSettings = FALSE
  /\ analysis = Null
  /\ bgUnit = ""
  /\ view = Null
  /\ UiIdle
  /\ BenchIdle

\* a call that starts from what the call before it left behind
CallCarryingState(args) ==
  /\ Len(callLog) < MaxCalls
  /\ simArgs' = args
  /\ predictions' = calculateBGPredictions(
                       IF IsNull(predictions) THEN args.currentBGValue
                       ELSE predictions.fullProfile[2],
                       args.carbs, args.insulinDoseValue, args.trend, args.tdd)
  /\ callLog' = Append(callLog, [args |-> args, result |-> predictions'])
  /\ UNCHANGED <<cgmData, simPhase>>
  /\ UNCHANGED <<appVars, benchVars, uiVars>>

\* one more call: predictions = calculateBGPredictions(...)
Call(args) ==
  /\ Len(callLog) < MaxCalls
  /\ simArgs' = args
  /\ predictions' = calculateBGPredictions(args.currentBGValue, args.carbs,
                       args.insulinDoseValue, args.trend, args.tdd)
  /\ callLog' = Append(callLog, [args |-> args, result |-> predictions'])
  /\ UNCHANGED <<cgmData, simPhase>>
  /\ UNCHANGED <<appVars, benchVars, uiVars>>

CallsNext == \E args \in LogCalls : Call(args)

SpecCalls == CallsInit /\ [][CallsNext]_vars

\* ------------------------------------------------------------------------
\* calculateBGPredictions pass by pass: the entry, each pass of the
\* integration loop and the return
\* ------------------------------------------------------------------------

\* how many of the listed values the runs draw from
NumLoopBG      == 3
NumLoopCarbs   == 2
NumLoopInsulin == 2
NumLoopTDD     == 2

LoopBGValues ==
  Prefix(<<Num(150), Num(250), Str(<<"a", "b", "c">>), Num(40), Num(101)>>,
         NumLoopBG)
LoopCarbValues   == Prefix(<<Num(0), Num(50), Num(100)>>, NumLoopCarbs)
LoopInsulinDoses == Prefix(<<Num(5), Num(0), Num(50)>>, NumLoopInsulin)
LoopTrends       == {"rising", "falling", "stable", "", "steady"}
LoopTDDValues    == Prefix(<<Num(40), Num(0), Num(100)>>, NumLoopTDD)

LoopCalls ==
  [currentBGValue   : LoopBGValues,
   carbs            : LoopCarbValues,
   insulinDoseValue : LoopInsulinDoses,
   trend            : LoopTrends,
   tdd              : LoopTDDValues]

LoopInit ==
  /\ loopArgs \in LoopCalls
  /\ bgArray = <<>>
  /\ loopPhase = "entered"
  /\ calc = Null
  /\ SimIdle
  /\ profileData = Null
  /\ correctionFactor = Num(2)
  /\ showSettings = FALSE
  /\ analysis = Null
  /\ bgUnit = ""
  /\ view = Null
  /\ UiIdle

\* the entry: bgNum is parsed, null is returned for NaN, bgArray[0] = bgNum
LoopEnter ==
  /\ loopPhase = "entered"
  /\ LET bgNum == IF IsString(loopArgs.currentBGValue)
                  THEN parseFloat(loopArgs.currentBGValue.str)
                  ELSE loopArgs.currentBGValue
     IN  IF IsNaN(bgNum)
         THEN loopPhase' = "returned" /\ bgArray' = bgArray
         ELSE loopPhase' = "looping" /\ bgArray' = <<bgNum>>
  /\ UNCHANGED <<loopArgs, calc>>
  /\ UNCHANGED <<appVars, simVars, uiVars>>

\* pass i of the loop, i = bgArray.length
LoopPass ==
  /\ loopPhase = "looping"
  /\ Len(bgArray) <= horizon
  /\ LET i == Len(bgArray)
         r == calculateICRandISF(loopArgs.tdd)
     IN  bgArray' = Append(bgArray,
                      StepBG(bgArray[i], i, carbProfile(loopArgs.carbs),
                             insulinProfile(loopArgs.insulinDoseValue),
                             r.ICR, r.ISF, initialSlope(loopArgs.trend)))
  /\ UNCHANGED <<loopArgs, loopPhase, calc>>
  /\ UNCHANGED <<appVars, simVars, uiVars>>

\* the loop is over: the object is returned
LoopReturn ==
  /\ loopPhase = "looping"
  /\ Len(bgArray) > horizon
  /\ loopPhase' = "returned"
  /\ UNCHANGED <<loopArgs, bgArray, calc>>
  /\ UNCHANGED <<appVars, simVars, uiVars>>

\* the pass that filled the last element of bgArray, and the sum that pass
\* computed had the trend slope been the one given
LastPass == Len(bgArray) - 1

LastSum(slope) ==
  LET r == calculateICRandISF(loopArgs.tdd)
  IN  StepSum(bgArray[LastPass], LastPass, carbProfile(loopArgs.carbs),
              insulinProfile(loopArgs.insulinDoseValue), r.ICR, r.ISF, slope)

LoopNext == LoopEnter \/ LoopPass \/ LoopReturn

SpecLoop == LoopInit /\ [][LoopNext]_vars

\* ------------------------------------------------------------------------
\* The calculation rules applied one at a time: calculateICRandISF, the two
\* unit conversions one after the other, and convertBG
\* ------------------------------------------------------------------------

\* the largest total daily dose and the largest BG (mg/dL) applied
MaxRuleTDD == 60
MaxRuleBG  == 300

\* whole doses from 1 u, and whole BG values from 20 mg/dL: below that the
\* sixth decimal the numbers are kept to is coarser than a millionth of them
RuleTDDValues == {Num(t) : t \in 1..MaxRuleTDD}
RuleBGValues  == {Num(b) : b \in 20..MaxRuleBG} \cup {Dec(126, 500000)}
RuleConvertValues == {Num(100), Num(7), Dec(5, 500000), Num(0), NaN, PInf}

RuleApplications ==
  [op : {"calculateICRandISF"}, arg : RuleTDDValues, result : {Null}]
    \cup [op : {"roundTrip"}, arg : RuleBGValues, result : {Null}]
    \cup [op : {"convertBG"},
          arg : [value : RuleConvertValues, fromUnit : Units, toUnit : Units],
          result : {Null}]

RulesInit ==
  /\ calc \in RuleApplications
  /\ loopArgs = Null
  /\ bgArray = <<>>
  /\ loopPhase = "idle"
  /\ SimIdle
  /\ profileData = Null
  /\ correctionFactor = Num(2)
  /\ showSettings = FALSE
  /\ analysis = Null
  /\ bgUnit = ""
  /\ view = Null
  /\ UiIdle

\* const { ICR, ISF } = calculateICRandISF(tdd)
ApplyICRandISF ==
  /\ calc.op = "calculateICRandISF"
  /\ IsNull(calc.result)
  /\ calc' = [calc EXCEPT !.result = calculateICRandISF(calc.arg)]
  /\ UNCHANGED <<loopArgs, bgArray, loopPhase>>
  /\ UNCHANGED <<appVars, simVars, uiVars>>

\* a value in mg/dL converted to mmol/L and back
ApplyRoundTrip ==
  /\ calc.op = "roundTrip"
  /\ IsNull(calc.result)
  /\ LET mmolL == convertBG(calc.arg, "mg/dL", "mmol/L")
     IN  calc' = [calc EXCEPT !.result =
                    [mmolL |-> mmolL,
                     mgdL  |-> convertBG(mmolL, "mmol/L", "mg/dL")]]
  /\ UNCHANGED <<loopArgs, bgArray, loopPhase>>
  /\ UNCHANGED <<appVars, simVars, uiVars>>

\* convertBG(value, fromUnit, toUnit)
ApplyConvertBG ==
  /\ calc.op = "convertBG"
  /\ IsNull(calc.result)
  /\ calc' = [calc EXCEPT !.result =
                [value |-> convertBG(calc.arg.value, calc.arg.fromUnit,
                                     calc.arg.toUnit)]]
  /\ UNCHANGED <<loopArgs, bgArray, loopPhase>>
  /\ UNCHANGED <<appVars, simVars, uiVars>>

RulesNext == ApplyICRandISF \/ ApplyRoundTrip \/ ApplyConvertBG

SpecRules == RulesInit /\ [][RulesNext]_vars

\* ------------------------------------------------------------------------
\* The kernels, the profiles built from them and the first pass of the loop,
\* applied one at a time
\* ------------------------------------------------------------------------

\* the kernels are applied to the whole minutes from -3 to MaxKernelT
MaxKernelT == 180

KernelTimes == -3..MaxKernelT

KernelApplications ==
  [op : {"gammaKernel"}, arg : [t : KernelTimes, tau : {tauC, tau1}],
   result : {Null}]
    \cup [op : {"insulinKernel"}, arg : [t : KernelTimes], result : {Null}]
    \cup [op : {"profiles"},
          arg : [i : 0..(horizon - 1), carbs : LoopCarbValues,
                 insulinDoseValue : LoopInsulinDoses],
          result : {Null}]
    \cup [op : {"firstPass"},
          arg : [carbs : LoopCarbValues, insulinDoseValue : LoopInsulinDoses,
                 tdd : LoopTDDValues],
          result : {Null}]

KernelsInit ==
  /\ calc \in KernelApplications
  /\ loopArgs = Null
  /\ bgArray = <<>>
  /\ loopPhase = "idle"
  /\ SimIdle
  /\ profileData = Null
  /\ correctionFactor = Num(2)
  /\ showSettings = FALSE
  /\ analysis = Null
  /\ bgUnit = ""
  /\ view = Null
  /\ UiIdle

\* gammaKernel(t, tau)
ApplyGammaKernel ==
  /\ calc.op = "gammaKernel"
  /\ IsNull(calc.result)
  /\ calc' = [calc EXCEPT !.result =
                [value |-> gammaKernel(calc.arg.t, calc.arg.tau)]]
  /\ UNCHANGED <<loopArgs, bgArray, loopPhase>>
  /\ UNCHANGED <<appVars, simVars, uiVars>>

\* insulinKernel(t, tau1, tau2) and normalizeInsulinKernel(t, tau1, tau2)
ApplyInsulinKernel ==
  /\ calc.op = "insulinKernel"
  /\ IsNull(calc.result)
  /\ calc' = [calc EXCEPT !.result =
                [value      |-> insulinKernel(calc.arg.t, tau1, tau2),
                 normalized |-> normalizeInsulinKernel(calc.arg.t, tau1, tau2)]]
  /\ UNCHANGED <<loopArgs, bgArray, loopPhase>>
  /\ UNCHANGED <<appVars, simVars, uiVars>>

\* carbProfile[i] and insulinProfile[i] as the two filling loops assign them
ApplyProfiles ==
  /\ calc.op = "profiles"
  /\ IsNull(calc.result)
  /\ calc' = [calc EXCEPT !.result =
                [carbProfile    |-> carbProfile(calc.arg.carbs)[calc.arg.i + 1],
                 insulinProfile |->
                   insulinProfile(calc.arg.insulinDoseValue)[calc.arg.i + 1]]]
  /\ UNCHANGED <<loopArgs, bgArray, loopPhase>>
  /\ UNCHANGED <<appVars, simVars, uiVars>>

\* deltaFromCarbs and deltaFromInsulin of the pass i = 1
ApplyFirstPass ==
  /\ calc.op = "firstPass"
  /\ IsNull(calc.result)
  /\ LET r == calculateICRandISF(calc.arg.tdd)
     IN  calc' = [calc EXCEPT !.result =
                    [deltaFromCarbs |->
                       deltaFromCarbs(1, carbProfile(calc.arg.carbs), r.ICR, r.ISF),
                     deltaFromInsulin |->
                       deltaFromInsulin(1, insulinProfile(calc.arg.insulinDoseValue),
                                        r.ISF)]]
  /\ UNCHANGED <<loopArgs, bgArray, loopPhase>>
  /\ UNCHANGED <<appVars, simVars, uiVars>>

KernelsNext ==
  ApplyGammaKernel \/ ApplyInsulinKernel \/ ApplyProfiles \/ ApplyFirstPass

SpecKernels == KernelsInit /\ [][KernelsNext]_vars

\* ------------------------------------------------------------------------
\* One render of AnalysisResult for given props, with the forecast it shows
\* ------------------------------------------------------------------------

\* how many of the listed current BG entries the renders draw from
NumRenderBG == 11

\* the current BG as a profile holds it, with its unit: entered values, and
\* the absent and the non-numeric text in either unit
RenderBGValues ==
  Prefix(<< [currentBG |-> <<"1", "5", "0">>, bgUnit |-> "mg/dL"],
            [currentBG |-> <<"1", "0">>, bgUnit |-> "mmol/L"],
            [currentBG |-> <<>>, bgUnit |-> "mg/dL"],
            [currentBG |-> <<"a", "b", "c">>, bgUnit |-> "mmol/L"],
            [currentBG |-> <<"7", "9">>, bgUnit |-> "mg/dL"],
            [currentBG |-> <<"7", ".", "1">>, bgUnit |-> "mmol/L"],
            [currentBG |-> <<"5", ".", "5">>, bgUnit |-> "mmol/L"],
            [currentBG |-> <<>>, bgUnit |-> "mmol/L"],
            [currentBG |-> <<"a", "b", "c">>, bgUnit |-> "mg/dL"],
            [currentBG |-> <<"1", "2", "6">>, bgUnit |-> "mg/dL"],
            [currentBG |-> <<"4">>, bgUnit |-> "mmol/L"],
            [currentBG |-> <<"1", "2", "7">>, bgUnit |-> "mg/dL"] >>,
         NumRenderBG)

RenderProps ==
  [analysis         : {[carbs |-> c, needsClarification |-> FALSE] : c \in CarbValues},
   carbRatio        : {Num(10), Dec(12, 500000)},
   bg               : RenderBGValues,
   bgTrend          : {"stable"},
   totalDailyDose   : {<<"4", "0">>},
   correctionFactor : CorrectionFactors]

RenderInit ==
  /\ calc \in [op : {"render"}, arg : RenderProps, result : {Null}]
  /\ loopArgs = Null
  /\ bgArray = <<>>
  /\ loopPhase = "idle"
  /\ SimIdle
  /\ profileData = Null
  /\ correctionFactor = Num(2)
  /\ showSettings = FALSE
  /\ analysis = Null
  /\ bgUnit = ""
  /\ view = Null
  /\ UiIdle

\* the render of a newly mounted AnalysisResult: bgUnit is the bgUnit prop,
\* the dose is calculated, the simulator is called, and the forecast panel is
\* shown when currentBG, bgTrend and totalDailyDose are non-empty, predictions
\* is not null and cgmData is not empty
Render ==
  /\ calc.op = "render"
  /\ IsNull(calc.result)
  /\ LET a == calc.arg
         v == RenderAnalysisResult(a.analysis, a.carbRatio, a.bg.currentBG,
                                   a.bgTrend, a.totalDailyDose, a.bg.bgUnit,
                                   a.correctionFactor)
         data == generateCGMData(v.simArgs.currentBGValue, v.simArgs.carbs,
                                 v.simArgs.insulinDoseValue, v.simArgs.trend,
                                 v.simArgs.tdd)
     IN  calc' = [calc EXCEPT !.result =
                    [view     |-> v,
                     forecast |-> /\ a.bg.currentBG # <<>>
                                  /\ a.bgTrend # ""
                                  /\ a.totalDailyDose # <<>>
                                  /\ Len(data) > 0]]
  /\ UNCHANGED <<loopArgs, bgArray, loopPhase>>
  /\ UNCHANGED <<appVars, simVars, uiVars>>

RenderNext == Render

SpecRender == RenderInit /\ [][RenderNext]_vars

\* ------------------------------------------------------------------------
\* FoodAnalyzer: the entry forms, the confirmations and the requests to
\* /api/analyze-food, /api/analyze-food-name and /api/clarify-food.  A
\* JavaScript object is a record; a request in flight holds what the closure
\* of its handler holds.  FoodUpload's preview is display only and left out.
\* ------------------------------------------------------------------------
MaxReaders == 2
MaxInFlight == 2

\* { ...a, ...b }
Spread(a, b) ==
  [f \in DOMAIN a \cup DOMAIN b |-> IF f \in DOMAIN b THEN b[f] ELSE a[f]]

\* a property of an object read as a condition: undefined is falsy
Truthy(a, f) == f \in DOMAIN a /\ a[f] = TRUE

DetectedRice == [foodName |-> "rice", quantity |-> "1 cup", carbs |-> 45]

\* bodies of /api/analyze-food: foods detected, none detected, an error
ImageBodies ==
  { [foodName |-> "rice", carbs |-> 45, needsClarification |-> FALSE,
     detectedFoods |-> <<DetectedRice>>],
    [foodName |-> "Unknown food", carbs |-> 0, needsClarification |-> TRUE,
     detectedFoods |-> <<>>],
    [error |-> "Failed to analyze food"] }

\* bodies of /api/analyze-food-name: suggestions, none, an error
NameBodies ==
  { [foodName |-> "rice",
     suggestions |-> <<[quantity |-> "1 cup", carbs |-> 45]>>],
    [foodName |-> "rice", suggestions |-> <<>>],
    [error |-> "Failed to analyze food name"] }

\* bodies of /api/clarify-food: the clarified food, an error
ClarifyBodies ==
  { [foodName |-> "rice", carbs |-> 60],
    [error |-> "Failed to process clarification"] }

\* a fetch that rejects, or a body that is not JSON
Rejected == [rejected |-> TRUE]

\* what a response is recorded as in delivered
OutcomeOf(data) ==
  IF data = Rejected THEN "rejected"
  ELSE IF "error" \in DOMAIN data THEN "error"
  ELSE "ok"

RemoveAt(s, i) == [j \in 1..(Len(s) - 1) |-> IF j < i THEN s[j] ELSE s[j + 1]]

\* AnalysisResult throws while rendering an analysis without carbs
\* (analysis.carbs.toString()); with no error boundary in the page, the tree
\* is unmounted and nothing more happens
Crashed == ~IsNull(analysis) /\ "carbs" \notin DOMAIN analysis

otherAppVars == <<profileData, correctionFactor, showSettings, bgUnit, view>>

FoodUploadShown ==
  /\ IsNull(analysis)
  /\ ~showConfirmation
  /\ ~showPhotoConfirmation
  /\ entryMode = "photo"

ManualFoodEntryShown ==
  /\ IsNull(analysis)
  /\ ~showConfirmation
  /\ ~showPhotoConfirmation
  /\ entryMode = "manual"

AnalyzerInit ==
  /\ profileData = Null
  /\ correctionFactor = Num(2)
  /\ showSettings = FALSE
  /\ analysis = Null
  /\ bgUnit = ""
  /\ view = Null
  /\ UiIdle
  /\ SimIdle
  /\ BenchIdle

\* the entry-mode toggle, shown while there is no analysis
SetEntryMode(mode) ==
  /\ ~Crashed
  /\ IsNull(analysis)
  /\ entryMode' = mode
  /\ UNCHANGED <<isAnalyzing, showConfirmation, showPhotoConfirmation,
                 foodSuggestions, pendingFoodName, pendingNotes,
                 photoDetectedFoods, pendingImageUrl, readers, requests,
                 delivered>>
  /\ UNCHANGED <<appVars, simVars, benchVars, pfVars>>

\* FoodUpload.handleFileChange: a file chosen with an enabled button starts a
\* FileReader
HandleFileChange ==
  /\ ~Crashed
  /\ FoodUploadShown
  /\ ~isAnalyzing
  /\ readers < MaxReaders
  /\ readers' = readers + 1
  /\ UNCHANGED <<isAnalyzing, entryMode, showConfirmation,
                 showPhotoConfirmation, foodSuggestions, pendingFoodName,
                 pendingNotes, photoDetectedFoods, pendingImageUrl, requests,
                 delivered>>
  /\ UNCHANGED <<appVars, simVars, benchVars, pfVars>>

\* reader.onloadend calls handleImageCapture, which runs up to its fetch
HandleImageCapture(imageUrl) ==
  /\ ~Crashed
  /\ readers > 0
  /\ Len(requests) < MaxInFlight
  /\ readers' = readers - 1
  /\ isAnalyzing' = TRUE
  /\ analysis' = Null
  /\ requests' = Append(requests, [kind |-> "image", imageUrl |-> imageUrl])
  /\ UNCHANGED <<entryMode, showConfirmation, showPhotoConfirmation,
                 foodSuggestions, pendingFoodName, pendingNotes,
                 photoDetectedFoods, pendingImageUrl, delivered>>
  /\ UNCHANGED <<otherAppVars, simVars, benchVars, pfVars>>

\* handleImageCapture from the response of /api/analyze-food on
ImageResponse(i, data) ==
  /\ ~Crashed
  /\ requests[i].kind = "image"
  /\ requests' = RemoveAt(requests, i)
  /\ delivered' = [kind |-> "image", outcome |-> OutcomeOf(data)]
  /\ isAnalyzing' = FALSE
  /\ IF data = Rejected
       THEN UNCHANGED <<analysis, photoDetectedFoods, pendingImageUrl,
                        showPhotoConfirmation>>
       ELSE IF "detectedFoods" \in DOMAIN data /\ Len(data.detectedFoods) > 0
         THEN /\ photoDetectedFoods' = data.detectedFoods
              /\ pendingImageUrl' = requests[i].imageUrl
              /\ showPhotoConfirmation' = TRUE
              /\ UNCHANGED analysis
         ELSE /\ analysis' = Spread(data, [imageUrl |-> requests[i].imageUrl])
              /\ UNCHANGED <<photoDetectedFoods, pendingImageUrl,
                             showPhotoConfirmation>>
  /\ UNCHANGED <<entryMode, showConfirmation, foodSuggestions,
                 pendingFoodName, pendingNotes, readers>>
  /\ UNCHANGED <<otherAppVars, simVars, benchVars, pfVars>>

\* the analysis handleManualFoodSubmit falls back to
ManualFallback(foodName, notes) ==
  [foodName |-> foodName, carbs |-> 0, needsClarification |-> TRUE,
   imageUrl |-> "", notes |-> notes]

\* ManualFoodEntry's form submitted with an enabled button:
\* handleManualFoodSubmit up to its fetch
HandleManualFoodSubmit(foodName, notes) ==
  /\ ~Crashed
  /\ ManualFoodEntryShown
  /\ ~isAnalyzing
  /\ Len(requests) < MaxInFlight
  /\ isAnalyzing' = TRUE
  /\ pendingFoodName' = foodName
  /\ pendingNotes' = notes
  /\ requests' = Append(requests, [kind |-> "manual", foodName |-> foodName,
                                   notes |-> notes])
  /\ UNCHANGED <<entryMode, showConfirmation, showPhotoConfirmation,
                 foodSuggestions, photoDetectedFoods, pendingImageUrl,
                 readers, delivered>>
  /\ UNCHANGED <<appVars, simVars, benchVars, pfVars>>

\* handleManualFoodSubmit from the response of /api/analyze-food-name on
ManualResponse(i, data) ==
  /\ ~Crashed
  /\ requests[i].kind = "manual"
  /\ requests' = RemoveAt(requests, i)
  /\ delivered' = [kind |-> "manual", outcome |-> OutcomeOf(data)]
  /\ isAnalyzing' = FALSE
  /\ IF /\ data # Rejected
        /\ "suggestions" \in DOMAIN data
        /\ Len(data.suggestions) > 0
       THEN /\ foodSuggestions' = data.suggestions
            /\ showConfirmation' = TRUE
            /\ UNCHANGED analysis
       ELSE /\ analysis' = ManualFallback(requests[i].foodName,
                                          requests[i].notes)
            /\ UNCHANGED <<foodSuggestions, showConfirmation>>
  /\ UNCHANGED <<entryMode, showPhotoConfirmation, pendingFoodName,
                 pendingNotes, photoDetectedFoods, pendingImageUrl, readers>>
  /\ UNCHANGED <<otherAppVars, simVars, benchVars, pfVars>>

\* FoodConfirmation's confirm button
HandleConfirmationOf(selectedSuggestion) ==
  /\ ~Crashed
  /\ showConfirmation
  /\ ~isAnalyzing
  /\ analysis' = [foodName |-> pendingFoodName,
                  carbs |-> selectedSuggestion.carbs,
                  needsClarification |-> FALSE,
                  imageUrl |-> "",
                  notes |-> pendingNotes,
                  servingSize |-> selectedSuggestion.quantity]
  /\ showConfirmation' = FALSE
  /\ foodSuggestions' = <<>>
  /\ pendingFoodName' = ""
  /\ pendingNotes' = ""
  /\ UNCHANGED <<isAnalyzing, entryMode, showPhotoConfirmation,
                 photoDetectedFoods, pendingImageUrl, readers, requests,
                 delivered>>
  /\ UNCHANGED <<otherAppVars, simVars, benchVars, pfVars>>

\* FoodConfirmation's edit button
HandleEditFood ==
  /\ ~Crashed
  /\ showConfirmation
  /\ showConfirmation' = FALSE
  /\ foodSuggestions' = <<>>
  /\ UNCHANGED <<isAnalyzing, entryMode, showPhotoConfirmation,
                 pendingFoodName, pendingNotes, photoDetectedFoods,
                 pendingImageUrl, readers, requests, delivered>>
  /\ UNCHANGED <<appVars, simVars, benchVars, pfVars>>

RECURSIVE TotalCarbs(_)
TotalCarbs(confirmedFoods) ==
  IF confirmedFoods = <<>> THEN 0
  ELSE Head(confirmedFoods).carbs + TotalCarbs(Tail(confirmedFoods))

RECURSIVE JoinNames(_)
JoinNames(confirmedFoods) ==
  IF confirmedFoods = <<>> THEN <<>>
  ELSE <<Head(confirmedFoods).foodName>> \o JoinNames(Tail(confirmedFoods))

\* PhotoFoodConfirmation's confirm button
HandlePhotoConfirmation(confirmedFoods) ==
  /\ ~Crashed
  /\ showPhotoConfirmation
  /\ ~isAnalyzing
  /\ analysis' = [foodName |-> JoinNames(confirmedFoods),
                  carbs |-> TotalCarbs(confirmedFoods),
                  needsClarification |-> FALSE,
                  imageUrl |-> pendingImageUrl,
                  detectedFoods |-> confirmedFoods]
  /\ showPhotoConfirmation' = FALSE
  /\ photoDetectedFoods' = <<>>
  /\ pendingImageUrl' = ""
  /\ UNCHANGED <<isAnalyzing, entryMode, showConfirmation, foodSuggestions,
                 pendingFoodName, pendingNotes, readers, requests, delivered>>
  /\ UNCHANGED <<otherAppVars, simVars, benchVars, pfVars>>

\* PhotoFoodConfirmation's edit button
HandleEditPhoto ==
  /\ ~Crashed
  /\ showPhotoConfirmation
  /\ showPhotoConfirmation' = FALSE
  /\ photoDetectedFoods' = <<>>
  /\ pendingImageUrl' = ""
  /\ UNCHANGED <<isAnalyzing, entryMode, showConfirmation, foodSuggestions,
                 pendingFoodName, pendingNotes, readers, requests, delivered>>
  /\ UNCHANGED <<appVars, simVars, benchVars, pfVars>>

\* the clarification form of AnalysisResult submitted with enabled inputs:
\* handleClarificationResponse up to its fetch, holding the analysis it was
\* called with
HandleClarificationResponse(response) ==
  /\ ~Crashed
  /\ ~IsNull(analysis)
  /\ Truthy(analysis, "needsClarification")
  /\ ~isAnalyzing
  /\ Len(requests) < MaxInFlight
  /\ isAnalyzing' = TRUE
  /\ requests' = Append(requests, [kind |-> "clarify", analysis |-> analysis,
                                   clarification |-> response])
  /\ UNCHANGED <<entryMode, showConfirmation, showPhotoConfirmation,
                 foodSuggestions, pendingFoodName, pendingNotes,
                 photoDetectedFoods, pendingImageUrl, readers, delivered>>
  /\ UNCHANGED <<appVars, simVars, benchVars, pfVars>>

\* handleClarificationResponse from the response of /api/clarify-food on
ClarifyResponse(i, data) ==
  /\ ~Crashed
  /\ requests[i].kind = "clarify"
  /\ requests' = RemoveAt(requests, i)
  /\ delivered' = [kind |-> "clarify", outcome |-> OutcomeOf(data)]
  /\ isAnalyzing' = FALSE
  /\ IF data = Rejected
       THEN UNCHANGED analysis
       ELSE analysis' = Spread(Spread(requests[i].analysis, data),
                               [needsClarification |-> FALSE])
  /\ UNCHANGED <<entryMode, showConfirmation, showPhotoConfirmation,
                 foodSuggestions, pendingFoodName, pendingNotes,
                 photoDetectedFoods, pendingImageUrl, readers>>
  /\ UNCHANGED <<otherAppVars, simVars, benchVars, pfVars>>

\* "Analyze Another Meal" of AnalysisResult, shown with the result
AnalyzerOnReset ==
  /\ ~Crashed
  /\ ~IsNull(analysis)
  /\ ~Truthy(analysis, "needsClarification")
  /\ analysis' = Null
  /\ UNCHANGED faVars
  /\ UNCHANGED <<otherAppVars, simVars, benchVars, pfVars>>

AnalyzerNext ==
  \/ \E mode \in {"photo", "manual"} : SetEntryMode(mode)
  \/ HandleFileChange
  \/ \E imageUrl \in {"data:photo"} : HandleImageCapture(imageUrl)
  \/ \E i \in 1..Len(requests), data \in ImageBodies \cup {Rejected} :
       ImageResponse(i, data)
  \/ \E foodName \in {"rice"} : HandleManualFoodSubmit(foodName, "")
  \/ \E i \in 1..Len(requests), data \in NameBodies \cup {Rejected} :
       ManualResponse(i, data)
  \/ \E k \in 1..Len(foodSuggestions) :
       HandleConfirmationOf(foodSuggestions[k])
  \/ HandleEditFood
  \/ HandlePhotoConfirmation(photoDetectedFoods)
  \/ HandleEditPhoto
  \/ \E response \in {"one cup"} : HandleClarificationResponse(response)
  \/ \E i \in 1..Len(requests), data \in ClarifyBodies \cup {Rejected} :
       ClarifyResponse(i, data)
  \/ AnalyzerOnReset

SpecAnalyzer == AnalyzerInit /\ [][AnalyzerNext]_vars

\* ------------------------------------------------------------------------
\* PhotoFoodConfirmation: the rows of detected foods, edited while requests
\* to /api/calculate-carbs are in flight.  A request in flight holds the
\* newFoods array, the row and the name and quantity of the call that sent it.
\* ------------------------------------------------------------------------
MaxFoods == 2
MaxCarbRequests == 2

\* the carbs the endpoint answers for a food and a quantity, already rounded
\* (Math.round(result.carbs || 0))
CarbsFor(foodName, quantity) ==
  (IF foodName = "rice" THEN 45 ELSE 15) * (IF quantity = "1 cup" THEN 1 ELSE 2)

\* mounted with the foods detected in the photo
PhotoInit ==
  /\ foods = <<DetectedRice>>
  /\ carbRequests = <<>>
  /\ AnalyzerInitial
  /\ profileData = Null
  /\ correctionFactor = Num(2)
  /\ showSettings = FALSE
  /\ analysis = Null
  /\ bgUnit = ""
  /\ view = Null
  /\ SimIdle
  /\ BenchIdle

\* handleFoodChange up to its fetch, or to its end when nothing is fetched
HandleFoodChange(index, field, value) ==
  /\ index \in 1..Len(foods)
  /\ LET newFoods == [foods EXCEPT ![index] =
                        Spread(foods[index], (field :> value))]
         fetches  == /\ value # ""
                     /\ newFoods[index].foodName # ""
                     /\ newFoods[index].quantity # ""
     IN  /\ fetches => Len(carbRequests) < MaxCarbRequests
         /\ foods' = newFoods
         /\ carbRequests' =
              IF fetches
                THEN Append(carbRequests,
                            [newFoods |-> newFoods, index |-> index,
                             foodName |-> newFoods[index].foodName,
                             quantity |-> newFoods[index].quantity])
                ELSE carbRequests
  /\ UNCHANGED <<appVars, simVars, benchVars, faVars>>

\* handleFoodChange from the response of /api/calculate-carbs on: a response
\* that is ok stores the newFoods of its call with the carbs answered
CarbsResponse(i, ok) ==
  /\ i \in 1..Len(carbRequests)
  /\ carbRequests' = RemoveAt(carbRequests, i)
  /\ LET r == carbRequests[i]
     IN  foods' = IF ok
                    THEN [r.newFoods EXCEPT ![r.index] =
                            Spread(r.newFoods[r.index],
                                   [carbs |-> CarbsFor(r.foodName, r.quantity)])]
                    ELSE foods
  /\ UNCHANGED <<appVars, simVars, benchVars, faVars>>

addFood ==
  /\ Len(foods) < MaxFoods
  /\ foods' = Append(foods, [foodName |-> "", quantity |-> "", carbs |-> 0])
  /\ UNCHANGED carbRequests
  /\ UNCHANGED <<appVars, simVars, benchVars, faVars>>

removeFood(index) ==
  /\ index \in 1..Len(foods)
  /\ Len(foods) > 1
  /\ foods' = RemoveAt(foods, index)
  /\ UNCHANGED carbRequests
  /\ UNCHANGED <<appVars, simVars, benchVars, faVars>>

PhotoNext ==
  \/ \E index \in 1..MaxFoods, value \in {"bread", ""} :
       HandleFoodChange(index, "foodName", value)
  \/ \E index \in 1..MaxFoods, value \in {"2 cups"} :
       HandleFoodChange(index, "quantity", value)
  \/ \E i \in 1..MaxCarbRequests, ok \in BOOLEAN : CarbsResponse(i, ok)
  \/ addFood
  \/ \E index \in 1..MaxFoods : removeFood(index)

SpecPhoto == PhotoInit /\ [][PhotoNext]_vars

\* ------------------------------------------------------------------------
\* Properties
\* ------------------------------------------------------------------------

C2_NullExactlyWhenNotFinite ==
  simPhase = "done" =>
    LET x     == simArgs.currentBGValue
        bgNum == IF IsString(x) THEN parseFloat(x.str) ELSE x
    IN  /\ IsNull(predictions) <=> ~IsFinite(bgNum)
        /\ (cgmData = <<>>) <=> ~IsFinite(bgNum)
        /\ ~IsNull(predictions) =>
             /\ Len(predictions.fullProfile) = horizon + 1
             /\ \A i \in 1..Len(predictions.fullProfile) :
                  IsFinite(predictions.fullProfile[i])

\* C3: whenever the dose is calculated and the simulator is called, carbRatio,
\* correctionFactor and totalDailyDose are numbers above 0.
C3_ParametersPositive ==
  ~IsNull(view) =>
    /\ FGt(profileData.ratio, Num(0))
    /\ FGt(view.correctionFactor, Num(0))
    /\ FGt(view.simArgs.tdd, Num(0))

\* C4: the low-BG reduction (minus 1, floored at 0) is applied exactly when
\* the current BG is below 80 mg/dL, or below 80 / 18.0182 mmol/L when the
\* unit is mmol/L.
C4_LowBGReductionAtThreshold ==
  ~IsNull(view) =>
    LET below == IF view.unit = "mmol/L"
                 THEN FLt(view.currentBGNum, mgdLToMmolL(Num(lowBGThreshold)))
                 ELSE FLt(view.currentBGNum, Num(lowBGThreshold))
        sum   == FAdd(view.baseInsulinDose, view.correctionDose)
    IN  /\ view.lowBG <=> below
        /\ view.totalInsulinDose =
             IF below THEN MathMax(Num(0), FSub(sum, Num(1))) ELSE sum

\* C5: when the profile's unit is mmol/L, the currentBG handed to
\* calculateBGPredictions is the entered value times 18.0182 (its mmol/L
\* equivalent is the entered value, to 0.0001).
C5_SimulatorGetsMgdL ==
  (~IsNull(view) /\ profileData.bgUnit = "mmol/L") =>
    LET x       == view.simArgs.currentBGValue
        simBG   == IF IsString(x) THEN parseFloat(x.str) ELSE x
        entered == parseFloat(profileData.currentBG)
    IN  /\ IsFinite(simBG)
        /\ Abs(mgdLToMmolL(simBG).v - entered.v) <= 100

\* C6: for carbs >= 0, carbRatio > 0 and correctionFactor > 0 the total dose
\* is max(0, baseDose + correctionDose + safetyAdjustment) with baseDose =
\* carbs / carbRatio, correctionDose >= 0 and safetyAdjustment 0 or -1, and it
\* is never negative.
C6_TotalDose ==
  (/\ ~IsNull(view)
   /\ FGe(analysis.carbs, Num(0))
   /\ FGt(profileData.ratio, Num(0))
   /\ FGt(correctionFactor, Num(0))) =>
    /\ view.baseInsulinDose = FDiv(analysis.carbs, profileData.ratio)
    /\ FGe(view.correctionDose, Num(0))
    /\ \E safetyAdjustment \in {Num(0), Num(-1)} :
         view.totalInsulinDose =
           MathMax(Num(0), FAdd(FAdd(view.baseInsulinDose, view.correctionDose),
                                safetyAdjustment))
    /\ FGe(view.totalInsulinDose, Num(0))

\* a dose that the floor at 0 holds up: nothing to cover, low BG
C6_FlooredAtZero ==
  /\ ~IsNull(view)
  /\ FEq(analysis.carbs, Num(0))
  /\ view.lowBG
  /\ FEq(view.correctionDose, Num(0))
  /\ FEq(view.totalInsulinDose, Num(0))

\* C7: for correctionFactor > 0 the correction dose is (bgInMmolL - 7) /
\* correctionFactor when the current BG, divided by 18.0182 if it was entered
\* in mg/dL, exceeds 7, and 0 otherwise; it is never negative.
C7_CorrectionDose ==
  (~IsNull(view) /\ FGt(correctionFactor, Num(0))) =>
    LET entered   == parseFloat(profileData.currentBG)
        bgInMmolL == IF profileData.bgUnit = "mg/dL" THEN mgdLToMmolL(entered)
                     ELSE entered
    IN  /\ view.correctionDose =
             IF FGt(bgInMmolL, Num(correctionTarget))
             THEN FDiv(FSub(bgInMmolL, Num(correctionTarget)), correctionFactor)
             ELSE Num(0)
        /\ FGe(view.correctionDose, Num(0))

C10_ZeroInputBaseline ==
  (/\ simPhase = "done"
   /\ ~IsNull(predictions)
   /\ simArgs.carbs = Num(0)
   /\ simArgs.insulinDoseValue = Num(0)
   /\ simArgs.trend = "stable") =>
    LET p == predictions.fullProfile
    IN  /\ FGe(p[1], Num(bgTarget)) =>
             /\ \A i \in 1..Len(p) : FGe(p[i], Num(bgTarget))
             /\ \A i \in 2..Len(p) : FLe(p[i], p[i - 1])
        /\ FLe(p[1], Num(bgTarget)) =>
             /\ \A i \in 1..Len(p) : FLe(p[i], Num(bgTarget))
             /\ \A i \in 2..Len(p) : FGe(p[i], p[i - 1])

\* C11: the returned trajectory has exactly 181 elements and its element at
\* index 0 is the currentBG passed in (the number a text denotes), unmodified.
C11_LengthAndStart ==
  (simPhase = "done" /\ ~IsNull(predictions)) =>
    LET x == simArgs.currentBGValue
    IN  /\ Len(predictions.fullProfile) = 181
        /\ Len(predictions.fullProfile) = horizon + 1
        /\ predictions.fullProfile[1] =
             IF IsString(x) THEN parseFloat(x.str) ELSE x

\* a returned trajectory that starts below the floor, as passed in
C11_StartsBelowFloor ==
  /\ simPhase = "done"
  /\ ~IsNull(predictions)
  /\ simArgs.currentBGValue = Num(40)
  /\ predictions.fullProfile[1] = Num(40)
  /\ Len(predictions.fullProfile) = 181

C13_CriticalFlagsAdditive ==
  (simPhase = "done" /\ ~IsNull(predictions)) =>
    \A k \in 1..Len(cgmData) :
      LET d == cgmData[k]
          v == predictions.fullProfile[cgmData[k].time + 1]
      IN  /\ d.isCriticalHigh => d.isHigh
          /\ d.isCriticalLow => d.isLow
          /\ FGt(v, Num(250)) => (d.isHigh /\ d.isCriticalHigh)
          /\ FLt(v, Num(55)) => (d.isLow /\ d.isCriticalLow)
          /\ FGt(d.bg, Num(250)) => (d.isHigh /\ d.isCriticalHigh)
          /\ FLt(d.bg, Num(55)) => (d.isLow /\ d.isCriticalLow)

\* a run showing a sample above 250 that carries both flags
C13_BothHighFlags ==
  /\ simPhase = "done"
  /\ \E k \in 1..Len(cgmData) :
       /\ IsFinite(cgmData[k].bg)
       /\ FGt(cgmData[k].bg, Num(250))
       /\ cgmData[k].isCriticalHigh /\ cgmData[k].isHigh
       /\ ~cgmData[k].isTarget

C17_NeverClampedFromAbove ==
  Len(bgArray) >= 2 =>
    LET unclamped == LastSum(initialSlope(loopArgs.trend))
    IN  /\ LastPass \in 1..180
        /\ FGe(unclamped, Num(50)) => bgArray[LastPass + 1] = unclamped

\* a pass that stored a value above 300 as computed
C17_LargeValueStored ==
  /\ Len(bgArray) >= 2
  /\ FGt(bgArray[LastPass + 1], Num(300))
  /\ IsFinite(bgArray[LastPass + 1])
  /\ bgArray[LastPass + 1] = LastSum(initialSlope(loopArgs.trend))

\* C18: with carbs = 0, trend = stable and insulinDose >= 0, every pass whose
\* previous value is above 100 strictly decreases the trajectory; for carbs =
\* 0, insulinDose = 5, currentBG = 150, tdd = 40 the trajectory is strictly
\* decreasing over minutes 0..60.
C18_StrictlyDecreasing ==
  (/\ Len(bgArray) >= 2
   /\ loopArgs.carbs = Num(0)
   /\ loopArgs.trend = "stable"
   /\ FGe(loopArgs.insulinDoseValue, Num(0))) =>
    /\ FGt(bgArray[LastPass], Num(100)) =>
         FLt(bgArray[LastPass + 1], bgArray[LastPass])
    /\ (/\ loopArgs.insulinDoseValue = Num(5)
        /\ loopArgs.currentBGValue = Num(150)
        /\ loopArgs.tdd = Num(40)
        /\ LastPass <= 60) =>
         FLt(bgArray[LastPass + 1], bgArray[LastPass])

\* C20: the trend contributes +2 per minute (rising), -2 per minute (falling)
\* or 0 (stable) to the trajectory at passes 1..10 only and 0 at every pass
\* after the tenth; any trend other than rising or falling, the empty string
\* included, behaves as stable.
C20_TrendContribution ==
  Len(bgArray) >= 2 =>
    LET contribution ==
          IF LastPass > 10 THEN Num(0)
          ELSE IF loopArgs.trend = "rising" THEN Num(2)
          ELSE IF loopArgs.trend = "falling" THEN Num(-2)
          ELSE Num(0)
    IN  bgArray[LastPass + 1] =
          MathMax(Num(50), FAdd(LastSum(Num(0)), contribution))

\* a rising trend that lifted the tenth pass by 2 and left the eleventh alone
C20_TrendEndsAfterTenthPass ==
  /\ Len(bgArray) = 12
  /\ loopArgs.trend = "rising"
  /\ IsFinite(bgArray[12])
  /\ bgArray[12] = MathMax(Num(50), LastSum(Num(0)))
  /\ FGt(bgArray[11], FAdd(bgArray[10], Num(1)))
  /\ FLt(bgArray[12], FAdd(bgArray[11], Num(1)))

\* C16: ICR = 500 / tdd and ISF = 1500 / tdd, so ISF = 3 * ICR for every
\* tdd > 0 (each to the last decimal kept); tdd = 40 gives ICR = 12.5 and
\* ISF = 37.5.
C16_RulesOf500And1500 ==
  (calc.op = "calculateICRandISF" /\ ~IsNull(calc.result)) =>
    LET tdd == calc.arg.v \div FX
        ICR == calc.result.ICR
        ISF == calc.result.ISF
    IN  /\ IsFinite(ICR) /\ IsFinite(ISF)
        /\ Abs(ICR.v * tdd - 500 * FX) <= tdd
        /\ Abs(ISF.v * tdd - 1500 * FX) <= tdd
        /\ Abs(ISF.v - 3 * ICR.v) <= 2
        /\ tdd = 40 => (ICR = Dec(12, 500000) /\ ISF = Dec(37, 500000))

\* the rules applied to tdd = 40
C16_ExampleB ==
  /\ calc.op = "calculateICRandISF"
  /\ calc.arg = Num(40)
  /\ ~IsNull(calc.result)
  /\ calc.result = [ICR |-> Dec(12, 500000), ISF |-> Dec(37, 500000)]

\* C19: unit round trip: for a BG value v, mmolLToMgdL(mgdLToMmolL(v)) equals
\* v within a relative tolerance of 1e-6, and convertBG with identical source
\* and target unit returns its argument unchanged.
C19_UnitRoundTrip ==
  /\ (calc.op = "roundTrip" /\ ~IsNull(calc.result)) =>
       /\ IsFinite(calc.result.mgdL)
       /\ Abs(calc.result.mgdL.v - calc.arg.v) <= Abs(calc.arg.v) \div 1000000
  /\ (/\ calc.op = "convertBG"
      /\ ~IsNull(calc.result)
      /\ calc.arg.fromUnit = calc.arg.toUnit) =>
       calc.result.value = calc.arg.value

\* 126 mg/dL taken to mmol/L, where it is about 6.99, and back
C19_RoundTripOf126 ==
  /\ calc.op = "roundTrip"
  /\ calc.arg = Num(126)
  /\ ~IsNull(calc.result)
  /\ FGt(calc.result.mmolL, Dec(6, 990000))
  /\ FLt(calc.result.mmolL, Num(7))
  /\ Abs(calc.result.mgdL.v - calc.arg.v) <= 100

\* C21: gammaKernel(t, tau) and insulinKernel(t, tau1, tau2) return 0 for
\* every t <= 0, gammaKernel is >= 0 for every t and insulinKernel(t, 20, 160)
\* is >= 0 for every t in [0, 180]; hence every carbProfile and insulinProfile
\* entry is >= 0 for carbs >= 0 and insulinDose >= 0, and the pass i = 1, which
\* reads profile index 0, receives no carb and no insulin contribution.
C21_KernelSign ==
  ~IsNull(calc) /\ ~IsNull(calc.result) =>
    /\ calc.op = "gammaKernel" =>
         /\ calc.arg.t <= 0 => calc.result.value = Num(0)
         /\ FGe(calc.result.value, Num(0))
    /\ calc.op = "insulinKernel" =>
         /\ calc.arg.t <= 0 => calc.result.value = Num(0)
         /\ calc.arg.t \in 0..180 => FGe(calc.result.value, Num(0))
    /\ calc.op = "profiles" =>
         /\ FGe(calc.result.carbProfile, Num(0))
         /\ FGe(calc.result.insulinProfile, Num(0))
         /\ calc.arg.i = 0 =>
              /\ calc.result.carbProfile = Num(0)
              /\ calc.result.insulinProfile = Num(0)
    /\ calc.op = "firstPass" =>
         /\ calc.result.deltaFromCarbs = Num(0)
         /\ calc.result.deltaFromInsulin = Num(0)

\* C22: the unit in which the dose calculation interprets currentBG always
\* equals the unit of the saved profile, whatever the unit selector of the
\* result view was set to and whatever unit was saved in the settings while
\* the result is shown.
C22_DoseUnitIsProfileUnit ==
  ~IsNull(view) => view.unit = profileData.bgUnit

\* C23: when the current BG is absent or non-numeric the total dose equals the
\* base dose, with no correction dose and no low-BG reduction, and the
\* forecast is suppressed.
C23_NoBGNoAdjustment ==
  (/\ ~IsNull(calc)
   /\ ~IsNull(calc.result)
   /\ calc.op = "render"
   /\ IsNaN(parseFloat(calc.arg.bg.currentBG))) =>
    /\ ~calc.result.forecast
    /\ calc.result.view.correctionDose = Num(0)
    /\ ~calc.result.view.lowBG
    /\ calc.result.view.totalInsulinDose = calc.result.view.baseInsulinDose

\* C24: a positive correction dose and the low-BG safety reduction are never
\* both applied to the same total dose, for any current BG and either unit.
C24_CorrectionExcludesReduction ==
  (~IsNull(calc) /\ ~IsNull(calc.result) /\ calc.op = "render") =>
    ~(FGt(calc.result.view.correctionDose, Num(0)) /\ calc.result.view.lowBG)

\* C25: for every display sample the band flags agree with the classification
\* of the bg shown for it: a sample whose shown (rounded) bg is between 70 and
\* 180 inclusive has isTarget true and isHigh and isLow false; and the colour
\* of the 1h, 2h and 3h summary cards agrees with the flags of the samples at
\* minutes 60, 120 and 180.
C25_FlagsAgreeWithShownBG ==
  (simPhase = "done" /\ ~IsNull(predictions)) =>
    /\ \A k \in 1..Len(cgmData) :
         (FGe(cgmData[k].bg, Num(70)) /\ FLe(cgmData[k].bg, Num(180))) =>
           (cgmData[k].isTarget /\ ~cgmData[k].isHigh /\ ~cgmData[k].isLow)
    /\ \A c \in {<<predictions.oneHour, 5>>, <<predictions.twoHours, 9>>,
                 <<predictions.threeHours, 13>>} :
         /\ cardColour(c[1]) = "text-red-600" <=> cgmData[c[2]].isHigh
         /\ cardColour(c[1]) = "text-yellow-600" <=> cgmData[c[2]].isLow
         /\ cardColour(c[1]) = "text-green-600" <=> cgmData[c[2]].isTarget

\* ------------------------------------------------------------------------
\* FoodAnalyzer: requests, responses and views
\* ------------------------------------------------------------------------

\* C26: whenever the analyzer holds a non-null analysis, that analysis has a
\* numeric carbs value and a food name; an error body from the
\* image-analysis endpoint never becomes the analysis
C26_AnalysisHasCarbsAndName ==
  ~IsNull(analysis) =>
     /\ "carbs" \in DOMAIN analysis
     /\ analysis.carbs \in Int
     /\ "foodName" \in DOMAIN analysis
     /\ "error" \notin DOMAIN analysis

\* C27: the response to a clarification that failed (the fetch rejected, or an
\* error body) leaves the analysis as it was and marked needsClarification;
\* needsClarification goes from true to false only with the response of a
\* successful clarification
C27_FailedClarificationKeepsAnalysis ==
  [][ /\ ( /\ Len(requests') < Len(requests)
           /\ delivered'.kind = "clarify"
           /\ delivered'.outcome # "ok" )
         => ( /\ analysis' = analysis
              /\ ~IsNull(analysis')
              /\ Truthy(analysis', "needsClarification") )
      /\ ( /\ ~IsNull(analysis)
           /\ Truthy(analysis, "needsClarification")
           /\ ~IsNull(analysis')
           /\ ~Truthy(analysis', "needsClarification") )
         => ( /\ Len(requests') < Len(requests)
              /\ delivered'.kind = "clarify"
              /\ delivered'.outcome = "ok" )
    ]_vars

\* C28: the manual-entry confirmation, the photo confirmation and the analysis
\* result are pairwise mutually exclusive in every reachable state
C28_OneViewAtATime ==
  /\ ~(showConfirmation /\ showPhotoConfirmation)
  /\ ~(showConfirmation /\ ~IsNull(analysis))
  /\ ~(showPhotoConfirmation /\ ~IsNull(analysis))

\* C29: in the photo confirmation, the response to a carb recalculation
\* never changes the rows, their names or their quantities, which are the
\* user's latest edits, additions and removals, and the carbs it changes are
\* those of the name and quantity the row has
C29_ResponseKeepsLatestEdits ==
  [][ Len(carbRequests') < Len(carbRequests) =>
        /\ Len(foods') = Len(foods)
        /\ \A index \in 1..Len(foods) :
             /\ foods'[index].foodName = foods[index].foodName
             /\ foods'[index].quantity = foods[index].quantity
             /\ foods'[index].carbs # foods[index].carbs =>
                   foods'[index].carbs = CarbsFor(foods[index].foodName,
                                                  foods[index].quantity)
    ]_vars

\* C30: isAnalyzing is true whenever a request of handleImageCapture,
\* handleManualFoodSubmit or handleClarificationResponse is in flight
C30_AnalyzingWhileInFlight ==
  requests # <<>> => isAnalyzing

=============================================================================
